---- MODULE Spec2Model ----
(***************************************************************************)
(* Table pagination core of the layout engine                              *)
(* (packages/layout-engine/layout-engine/src/layout-table.ts).             *)
(*                                                                         *)
(* and the cell painter of the DOM painter                                 *)
(* (packages/layout-engine/painters/dom/src/table/renderTableCell.ts).     *)
(*                                                                         *)
(* Four specifications share the variables below:                          *)
(*   Spec         the pagination driver layoutTableBlock, one action per   *)
(*                early exit, preflight branch and loop-iteration branch;  *)
(*   FairSpec     Spec with the driver running on (weak fairness of Next); *)
(*   SpecPlanner  the pure planner computePartialRow applied to inputs     *)
(*                drawn from bounded sets;                                 *)
(*   SpecHelpers  the other pure functions (renderTableCell, ...), each    *)
(*                applied to arguments drawn from bounded sets.            *)
(* Heights are pixels (integers).  A missing optional value is modelled by *)
(* Absent (numbers) or by the empty sequence (arrays and records).         *)
(***************************************************************************)
EXTENDS Integers, Sequences, FiniteSets, TLC

VARIABLES
    block,              \* the table: rows (block rows joined with their measures), flags, totalHeight
    contentBottom,      \* PageState.contentBottom
    marginTop,          \* PageState.page.margins.top
    cursorY,            \* PageState.cursorY of the current page/column
    pageFragments,      \* PageState.page.fragments.length of the current page
    pageNo,             \* page number: advanceColumn calls so far (see NextPageNo)
    fragments,          \* the fragments this table pushed, in order
    currentRow,         \* layoutTableBlock local
    isTableContinuation,\* layoutTableBlock local
    pendingPartialRow,  \* layoutTableBlock local: <<>> is null, <<p>> a PartialRowInfo
    pc,                 \* position in layoutTableBlock
    lastStep,           \* the branch the last step took
    cprArgs,            \* SpecPlanner: the arguments of one computePartialRow call
    cprResult,          \* SpecPlanner: <<>> before the call, <<PartialRowInfo>> after
    callArgs,           \* SpecHelpers: the function called (fn) and its arguments
    callResult          \* SpecHelpers: <<>> before the call, <<result>> after

vars == <<block, contentBottom, marginTop, cursorY, pageFragments, pageNo, fragments,
          currentRow, isTableContinuation, pendingPartialRow, pc, lastStep,
          cprArgs, cprResult, callArgs, callResult>>

driverVars == <<block, contentBottom, marginTop, cursorY, pageFragments, pageNo, fragments,
                currentRow, isTableContinuation, pendingPartialRow, pc, lastStep>>

plannerVars == <<cprArgs, cprResult>>

helperVars == <<callArgs, callResult>>

(***************************************************************************)
(* Bounds of the model and program constants.                              *)
(***************************************************************************)
MaxRows == 2
MaxPages == 5
MaxPlannerLines == 2

MIN_PARTIAL_ROW_HEIGHT == 20
DEFAULT_PADDING_TOP == 2
DEFAULT_PADDING_BOTTOM == 2
DEFAULT_MIN_WIDTH == 25

Absent == -1
Null == <<>>

Max(a, b) == IF a >= b THEN a ELSE b
Min(a, b) == IF a <= b THEN a ELSE b

RECURSIVE SumFromTo(_, _, _)
\* sum of s[i] for from <= i < to, clipped to the sequence (1-based: s[i+1])
SumFromTo(s, from, to) ==
    IF from >= to \/ from >= Len(s) THEN 0
    ELSE s[from + 1] + SumFromTo(s, from + 1, to)

RECURSIVE MaxOver(_)
MaxOver(s) == IF s = <<>> THEN 0 ELSE Max(Head(s), MaxOver(Tail(s)))

(***************************************************************************)
(* Cells.  A cell measure is a sequence of block measures                  *)
(* [kind, lines] plus the legacy single paragraph; lines are lineHeights.  *)
(***************************************************************************)
RECURSIVE FlattenParagraphs(_)
FlattenParagraphs(blocks) ==
    IF blocks = <<>> THEN <<>>
    ELSE (IF Head(blocks).kind = "paragraph" THEN Head(blocks).lines ELSE <<>>)
         \o FlattenParagraphs(Tail(blocks))

getCellLines(cell) ==
    IF Len(cell.blocks) > 0 THEN FlattenParagraphs(cell.blocks)
    ELSE IF cell.hasParagraph THEN cell.paragraph
    ELSE <<>>

getCellTotalLines(cell) == Len(getCellLines(cell))

getCellPadding(cell) ==
    [top    |-> IF cell.padTop = Absent THEN DEFAULT_PADDING_TOP ELSE cell.padTop,
     bottom |-> IF cell.padBottom = Absent THEN DEFAULT_PADDING_BOTTOM ELSE cell.padBottom]

PaddingTotal(cell) == getCellPadding(cell).top + getCellPadding(cell).bottom

(***************************************************************************)
(* computePartialRow                                                       *)
(***************************************************************************)
RECURSIVE FitCutLinePastEnd(_, _, _, _)
FitCutLinePastEnd(lines, i, cumulative, availableForLines) ==
    IF i >= Len(lines) THEN [cutLine |-> i + 1, height |-> cumulative]
    ELSE IF cumulative + lines[i + 1] > availableForLines
         THEN [cutLine |-> i, height |-> cumulative]
    ELSE FitCutLinePastEnd(lines, i + 1, cumulative + lines[i + 1], availableForLines)

RECURSIVE FitCutLine(_, _, _, _)
\* pass 1 loop from line i with `cumulative` already used:
\* the exclusive cut line and the height of the lines taken
FitCutLine(lines, i, cumulative, availableForLines) ==
    IF i >= Len(lines) THEN [cutLine |-> i, height |-> cumulative]
    ELSE IF cumulative + lines[i + 1] > availableForLines
         THEN [cutLine |-> i, height |-> cumulative]
    ELSE FitCutLine(lines, i + 1, cumulative + lines[i + 1], availableForLines)

\* pass 1 for one cell
FirstPass(cell, startLine, availableHeight) ==
    FitCutLine(getCellLines(cell), startLine, 0,
               Max(0, availableHeight - PaddingTotal(cell)))

\* fromLineByCell || new Array(cellCount).fill(0)
StartLines(cells, fromLineByCell) ==
    IF fromLineByCell = Null THEN [i \in 1..Len(cells) |-> 0] ELSE fromLineByCell

RECURSIVE MinPositive(_)
\* Math.min over the positive entries, 0 when there is none
MinPositive(s) ==
    IF s = <<>> THEN 0
    ELSE LET rest == MinPositive(Tail(s))
         IN  IF Head(s) > 0
             THEN (IF rest = 0 THEN Head(s) ELSE Min(Head(s), rest))
             ELSE rest

\* pass 2: the realigned cut line of one cell
TargetLine(startLine, minLineAdvancement, lineCount) ==
    Min(startLine + minLineAdvancement, lineCount)

AlignedCutKeepFirstPass(firstPassCut, startLine, minLineAdvancement, lineCount, allComplete) ==
    firstPassCut

AlignedCutAlwaysRealigned(firstPassCut, startLine, minLineAdvancement, lineCount, allComplete) ==
    TargetLine(startLine, minLineAdvancement, lineCount)

\* toLineByCell[cellIdx] after the second pass
AlignedCut(firstPassCut, startLine, minLineAdvancement, lineCount, allComplete) ==
    IF allComplete THEN firstPassCut
    ELSE TargetLine(startLine, minLineAdvancement, lineCount)

RECURSIVE RecalculatedHeight(_, _, _)
\* pass 2 loop: cumulativeHeight of lines [i, targetLine)
RecalculatedHeight(lines, i, targetLine) ==
    IF i >= targetLine THEN 0
    ELSE lines[i + 1] + RecalculatedHeight(lines, i + 1, targetLine)

CellContributionSum(actualPartialHeight, cellHeight, paddingTotal) ==
    actualPartialHeight + cellHeight + paddingTotal

\* actualPartialHeight = Math.max(actualPartialHeight, cellHeight + paddingTotal)
CellContribution(actualPartialHeight, cellHeight, paddingTotal) ==
    Max(actualPartialHeight, cellHeight + paddingTotal)

RECURSIVE SecondPassHeight(_, _, _, _, _, _)
\* the second loop over the cells, from cell i on, folding actualPartialHeight
SecondPassHeight(cells, startLines, pass1, toLineByCell, allComplete, i) ==
    IF i > Len(cells) THEN 0
    ELSE LET rest == SecondPassHeight(cells, startLines, pass1, toLineByCell,
                                      allComplete, i + 1)
             cellHeight ==
                 IF allComplete THEN pass1[i].height
                 ELSE RecalculatedHeight(getCellLines(cells[i]), startLines[i],
                                         toLineByCell[i])
         IN  CellContribution(rest, cellHeight, PaddingTotal(cells[i]))

computePartialRow(rowIndex, cells, availableHeight, fromLineByCell) ==
    LET n == Len(cells)
        startLines == StartLines(cells, fromLineByCell)
        pass1 == [i \in 1..n |-> FirstPass(cells[i], startLines[i], availableHeight)]
        allCellsCompleteInFirstPass ==
            \A i \in 1..n : pass1[i].cutLine >= getCellTotalLines(cells[i])
        lineAdvancements == [i \in 1..n |-> pass1[i].cutLine - startLines[i]]
        minLineAdvancement == MinPositive(lineAdvancements)
        toLineByCell ==
            [i \in 1..n |->
                AlignedCut(pass1[i].cutLine, startLines[i], minLineAdvancement,
                           getCellTotalLines(cells[i]), allCellsCompleteInFirstPass)]
        actualPartialHeight ==
            SecondPassHeight(cells, startLines, pass1, toLineByCell,
                             allCellsCompleteInFirstPass, 1)
        maxPaddingTotal == MaxOver([i \in 1..n |-> PaddingTotal(cells[i])])
        madeProgress == \E i \in 1..n : toLineByCell[i] > startLines[i]
        isFirstPart == \A i \in 1..n : startLines[i] = 0
        allCellsExhausted ==
            \A i \in 1..n : toLineByCell[i] >= getCellTotalLines(cells[i])
    IN  [rowIndex       |-> rowIndex,
         fromLineByCell |-> startLines,
         toLineByCell   |-> toLineByCell,
         isFirstPart    |-> isFirstPart,
         isLastPart     |-> allCellsExhausted \/ ~madeProgress,
         partialHeight  |-> IF actualPartialHeight = 0 /\ isFirstPart
                            THEN maxPaddingTotal ELSE actualPartialHeight,
         \* not a field of PartialRowInfo: which branch of pass 2 was taken
         allCellsCompleteInFirstPass |-> allCellsCompleteInFirstPass]

\* toLineByCell.some((toLine, idx) => toLine > (fromLineByCell[idx] || 0))
AdvancesSomeLine(p) ==
    \E i \in 1..Len(p.toLineByCell) : p.toLineByCell[i] > p.fromLineByCell[i]

(***************************************************************************)
(* Geometry helpers and findSplitPoint.  A row joins the block row (cells' *)
(* padding, cantSplit, repeatHeader) with its measure (height, lines).     *)
(***************************************************************************)
RowHeights(rows) == [i \in 1..Len(rows) |-> rows[i].height]

sumRowHeights(rows, fromRow, toRow) == SumFromTo(RowHeights(rows), fromRow, toRow)

RECURSIVE CountHeaderPrefix(_, _)
CountHeaderPrefix(rows, i) ==
    IF i > Len(rows) THEN 0
    ELSE IF rows[i].repeatHeader THEN 1 + CountHeaderPrefix(rows, i + 1)
    ELSE 0

\* every row with repeatHeader, wherever it stands
countRepeatHeaderRows(rows) == Cardinality({ i \in 1..Len(rows) : rows[i].repeatHeader })

countHeaderRows(rows) == CountHeaderPrefix(rows, 1)

calculateFragmentHeightBodyOnly(fromRow, toRow, repeatHeaderCount, rows) ==
    sumRowHeights(rows, fromRow, toRow)

calculateFragmentHeight(fromRow, toRow, repeatHeaderCount, rows) ==
    (IF repeatHeaderCount > 0 THEN sumRowHeights(rows, 0, repeatHeaderCount) ELSE 0)
    + sumRowHeights(rows, fromRow, toRow)

isOverTallNever(rowHeight, fullPageHeight) == FALSE

\* fullPageHeight && rowHeight > fullPageHeight
isOverTall(rowHeight, fullPageHeight) == fullPageHeight # 0 /\ rowHeight > fullPageHeight

rowFitsAlone(accumulatedHeight, rowHeight, availableHeight) == rowHeight <= availableHeight

\* accumulatedHeight + rowHeight <= availableHeight
rowFits(accumulatedHeight, rowHeight, availableHeight) ==
    accumulatedHeight + rowHeight <= availableHeight

hasSpaceForPartialRowAlways(remainingHeight) == TRUE

\* remainingHeight >= MIN_PARTIAL_ROW_HEIGHT
hasSpaceForPartialRow(remainingHeight) == remainingHeight >= MIN_PARTIAL_ROW_HEIGHT

RECURSIVE FindSplitFrom(_, _, _, _, _, _, _)
\* the loop of findSplitPoint at row i (0-based)
FindSplitFrom(rows, startRow, availableHeight, fullPageHeight, i, accumulatedHeight, lastFitRow) ==
    IF i >= Len(rows) THEN [endRow |-> Len(rows), partialRow |-> Null]
    ELSE LET rowHeight == rows[i + 1].height
             remainingHeight == availableHeight - accumulatedHeight
             partialRow == computePartialRow(i, rows[i + 1].cells, remainingHeight, Null)
         IN  IF rowFits(accumulatedHeight, rowHeight, availableHeight)
             THEN FindSplitFrom(rows, startRow, availableHeight, fullPageHeight,
                                i + 1, accumulatedHeight + rowHeight, i + 1)
             ELSE IF isOverTall(rowHeight, fullPageHeight)
             THEN [endRow |-> i + 1, partialRow |-> <<partialRow>>]
             ELSE IF rows[i + 1].cantSplit
             THEN [endRow |-> IF lastFitRow = startRow THEN startRow ELSE lastFitRow,
                   partialRow |-> Null]
             ELSE IF hasSpaceForPartialRow(remainingHeight) /\ AdvancesSomeLine(partialRow)
             THEN [endRow |-> i + 1, partialRow |-> <<partialRow>>]
             ELSE [endRow |-> lastFitRow, partialRow |-> Null]

findSplitPoint(rows, startRow, availableHeight, fullPageHeight) ==
    FindSplitFrom(rows, startRow, availableHeight, fullPageHeight, startRow, 0, startRow)

(***************************************************************************)
(* Inputs.  makeCell gives the measure's shape by line count: no content,  *)
(* the legacy single paragraph, or several blocks with a non-paragraph     *)
(* block between two paragraphs.                                           *)
(***************************************************************************)
makeCell(lines, padTop, padBottom) ==
    [blocks       |-> IF Len(lines) >= 2
                      THEN << [kind |-> "paragraph", lines |-> <<Head(lines)>>],
                              [kind |-> "image", lines |-> <<>>],
                              [kind |-> "paragraph", lines |-> Tail(lines)] >>
                      ELSE <<>>,
     hasParagraph |-> Len(lines) = 1,
     paragraph    |-> IF Len(lines) = 1 THEN lines ELSE <<>>,
     padTop       |-> padTop,
     padBottom    |-> padBottom]

\* the measuring pass: a row is as tall as its tallest cell, padding included
MeasuredRowHeight(cells) ==
    MaxOver([i \in 1..Len(cells) |->
                SumFromTo(getCellLines(cells[i]), 0, getCellTotalLines(cells[i]))
                + PaddingTotal(cells[i])])

\* the rows of the driver's tables: per row, the lines of each cell and the
\* cells' padding (Absent: the defaults apply)
RowShapes ==
    { [content |-> << <<10>> >>,             pad |-> Absent],
      [content |-> << <<30>> >>,             pad |-> Absent],
      [content |-> << <<30, 30, 30>> >>,     pad |-> Absent],
      [content |-> << <<10, 10>> >>,         pad |-> Absent],
      [content |-> << <<10, 10>>, <<30>> >>, pad |-> 0],
      [content |-> << <<50, 10>>, <<>> >>,   pad |-> Absent] }

makeRow(shape, cantSplit, repeatHeader) ==
    LET cells == [i \in 1..Len(shape.content) |->
                     makeCell(shape.content[i], shape.pad, shape.pad)]
    IN  [cells        |-> cells,
         cantSplit    |-> cantSplit,
         repeatHeader |-> repeatHeader,
         height       |-> MeasuredRowHeight(cells)]

Rows == { makeRow(sh, cs, rh) : sh \in RowShapes, cs \in BOOLEAN, rh \in BOOLEAN }

\* rows without row properties, for the tables that are never split by rows
PlainRows == { makeRow(sh, FALSE, FALSE) : sh \in RowShapes }

RECURSIVE SeqsUpTo(_, _)
\* the sequences over S of length 1..n
SeqsUpTo(S, n) ==
    IF n = 0 THEN {}
    ELSE LET shorter == SeqsUpTo(S, n - 1)
         IN  { <<x>> : x \in S } \cup shorter
             \cup { Append(q, x) : q \in { r \in shorter : Len(r) = n - 1 }, x \in S }

EmptyTableHeights == {0, 20, 70}

makeTable(rs, kind) ==
    [rows |-> rs, totalHeight |-> sumRowHeights(rs, 0, Len(rs)), kind |-> kind]

\* rows of one cell with one line
OneLineRows == { r \in PlainRows : Len(r.cells) = 1 /\ getCellTotalLines(r.cells[1]) = 1 }

\* a repeated header row of one line over MaxRows body rows of one line each
HeaderedRows ==
    { <<[h EXCEPT !.repeatHeader = TRUE]>> \o body :
        h \in OneLineRows,
        body \in { q \in SeqsUpTo(OneLineRows, MaxRows) : Len(q) = MaxRows } }

\* a repeated header row of one line over a row whose cells differ in their
\* numbers of lines, so that it is sliced one line at a time
SlicedUnderHeaderRows ==
    { << [h EXCEPT !.repeatHeader = TRUE],
         makeRow([content |-> << <<10, 10, 30>>, <<10>> >>, pad |-> Absent], FALSE, FALSE) >> :
        h \in OneLineRows }

Tables ==
    { makeTable(rs, "inline") :
        rs \in SeqsUpTo(Rows, MaxRows) \cup HeaderedRows \cup SlicedUnderHeaderRows }
    \cup { makeTable(rs, k) : rs \in SeqsUpTo(PlainRows, MaxRows),
                              k \in {"floating", "anchored"} }
    \cup { [rows |-> <<>>, totalHeight |-> h, kind |-> k] :
            h \in EmptyTableHeights, k \in {"inline", "floating", "anchored"} }

\* the page the table starts on: contentBottom, margins.top, and what earlier
\* blocks left (fragments on the page, cursorY); an empty page starts at the top
PageBottoms == {60}
MarginTops == {0, 20}
PriorOffsets == {30, 40}

(***************************************************************************)
(* The paginator, as layoutTableBlock sees it.                             *)
(***************************************************************************)
\* pages are numbered up to MaxPages; past that the numbers of the last two
\* pages alternate, so that a new page is still a different page
NextPageNo(n) == IF n < MaxPages THEN n + 1 ELSE MaxPages - 1

\* advanceColumn: a fresh column or page, empty, its cursor at the top
advanceColumn ==
    /\ cursorY' = marginTop
    /\ pageFragments' = 0
    /\ pageNo' = NextPageNo(pageNo)

stayOnPage == UNCHANGED <<cursorY, pageFragments, pageNo>>

AdvanceCursorByTotal(y, height) == y + block.totalHeight

\* state.cursorY += height
AdvanceCursor(y, height) == y + height

\* state.page.fragments.push(fragment); state.cursorY += fragment.height
pushFragment(fragment) ==
    /\ fragments' = Append(fragments, fragment)
    /\ pageFragments' = pageFragments + 1
    /\ cursorY' = AdvanceCursor(cursorY, fragment.height)
    /\ pageNo' = pageNo

(***************************************************************************)
(* layoutTableBlock                                                        *)
(***************************************************************************)
rows == block.rows
headerCount == countHeaderRows(rows)
headerHeight == IF headerCount > 0 THEN sumRowHeights(rows, 0, headerCount) ELSE 0
pageContentHeight == contentBottom - marginTop

\* fields a code path leaves undefined are Absent (numbers), FALSE (flags), Null
Fragment(path, fromRow, toRow, y, height, fromPrev, onNext, repeatHeaderCount, partialRow, page) ==
    [path |-> path, fromRow |-> fromRow, toRow |-> toRow, y |-> y, height |-> height,
     continuesFromPrev |-> fromPrev, continuesOnNext |-> onNext,
     repeatHeaderCount |-> repeatHeaderCount, partialRow |-> partialRow, page |-> page]

Init ==
    /\ block \in Tables
    /\ contentBottom \in PageBottoms
    /\ marginTop \in MarginTops
    /\ \/ pageFragments = 0 /\ cursorY = marginTop
       \/ pageFragments = 1 /\ cursorY \in { marginTop + d : d \in PriorOffsets }
    /\ cursorY <= contentBottom
    /\ pageNo = 0
    /\ fragments = <<>>
    /\ currentRow = 0
    /\ isTableContinuation = FALSE
    /\ pendingPartialRow = Null
    /\ pc = "start"
    /\ lastStep = <<"none">>
    /\ cprArgs = Null
    /\ cprResult = Null
    /\ callArgs = Null
    /\ callResult = Null

loopLocalsUnchanged == UNCHANGED <<currentRow, isTableContinuation, pendingPartialRow>>
inputsUnchanged ==
    UNCHANGED <<block, contentBottom, marginTop, cprArgs, cprResult, callArgs, callResult>>

isAnchoredNever(table) == FALSE

\* block.anchor?.isAnchored
isAnchored(table) == table.kind = "anchored"

isFloatingIfFits(table) == table.kind = "floating" /\ table.totalHeight <= contentBottom

\* floatingProps && Object.keys(floatingProps).length > 0
isFloating(table) == table.kind = "floating"

\* if (block.anchor?.isAnchored) return
SkipAnchored ==
    /\ pc = "start"
    /\ isAnchored(block)
    /\ pc' = "done"
    /\ lastStep' = <<"anchored">>
    /\ UNCHANGED <<fragments>>
    /\ stayOnPage /\ loopLocalsUnchanged /\ inputsUnchanged

MonolithicAdvancesOnAnyPage(y, totalHeight, bottom, fragmentCount) ==
    y + totalHeight > bottom

\* state.cursorY + measure.totalHeight > state.contentBottom && state.page.fragments.length > 0
MonolithicAdvances(y, totalHeight, bottom, fragmentCount) ==
    y + totalHeight > bottom /\ fragmentCount > 0

\* layoutMonolithicTable, up to its second ensurePage
MonolithicPreflight(step) ==
    /\ IF MonolithicAdvances(cursorY, block.totalHeight, contentBottom, pageFragments)
       THEN advanceColumn ELSE stayOnPage
    /\ pc' = "monolithic"
    /\ lastStep' = <<step>>
    /\ UNCHANGED <<fragments>>
    /\ loopLocalsUnchanged /\ inputsUnchanged

\* layoutMonolithicTable, the one fragment
MonolithicEmit ==
    /\ pc = "monolithic"
    /\ pushFragment(Fragment("monolithic", 0, Len(rows), cursorY,
                             Min(block.totalHeight, contentBottom - cursorY),
                             FALSE, FALSE, Absent, Null, pageNo))
    /\ pc' = "done"
    /\ lastStep' = <<"monolithic">>
    /\ loopLocalsUnchanged /\ inputsUnchanged

\* floatingTableProperties present and non-empty
LayoutFloating ==
    /\ pc = "start"
    /\ ~isAnchored(block)
    /\ isFloating(block)
    /\ MonolithicPreflight("floating")

KeepTogetherGateStrict == block.totalHeight < pageContentHeight

\* tableHeight <= pageContentHeight
KeepTogetherGate == block.totalHeight <= pageContentHeight

LayoutKeepTogether ==
    /\ pc = "start"
    /\ ~isAnchored(block) /\ ~isFloating(block)
    /\ KeepTogetherGate
    /\ MonolithicPreflight("keepTogether")

\* the start-of-table preflight; which: the branch, advance: whether it advances
Preflight(which, advance) ==
    /\ pc = "start"
    /\ ~isAnchored(block) /\ ~isFloating(block)
    /\ ~KeepTogetherGate
    /\ IF advance THEN advanceColumn ELSE stayOnPage
    /\ pc' = "loop"
    /\ lastStep' = <<which, advance>>
    /\ UNCHANGED <<fragments>>
    /\ loopLocalsUnchanged /\ inputsUnchanged

hasPriorFragments == pageFragments > 0
hasMeasuredRows == Len(rows) > 0

PreflightCantSplit ==
    /\ hasMeasuredRows /\ hasPriorFragments
    /\ rows[1].cantSplit
    /\ Preflight("cantSplit", rows[1].height > contentBottom - cursorY)

PreflightSplittable ==
    /\ hasMeasuredRows /\ hasPriorFragments
    /\ ~rows[1].cantSplit
    /\ LET partial == computePartialRow(0, rows[1].cells, contentBottom - cursorY, Null)
       IN  Preflight("splittable", ~AdvancesSomeLine(partial) \/ ~(partial.partialHeight > 0))

PreflightFallback ==
    /\ ~hasMeasuredRows /\ hasPriorFragments
    /\ LET minRequiredHeight == IF block.totalHeight > 0 THEN block.totalHeight ELSE 0
       IN  Preflight("fallback", minRequiredHeight > contentBottom - cursorY)

PreflightEmptyPage ==
    /\ ~hasPriorFragments
    /\ Preflight("emptyPage", FALSE)

PlaceholderHeightUnclipped(totalHeight, available) == totalHeight

\* Math.min(measure.totalHeight, state.contentBottom - state.cursorY)
PlaceholderHeight(totalHeight, available) == Min(totalHeight, available)

\* block.rows.length === 0 && measure.totalHeight > 0
ZeroRowPlaceholder ==
    /\ pc = "loop"
    /\ Len(rows) = 0 /\ block.totalHeight > 0
    /\ pushFragment(Fragment("placeholder", 0, 0, cursorY,
                             PlaceholderHeight(block.totalHeight, contentBottom - cursorY),
                             FALSE, FALSE, Absent, Null, pageNo))
    /\ pc' = "done"
    /\ lastStep' = <<"placeholder">>
    /\ loopLocalsUnchanged /\ inputsUnchanged

inLoop ==
    /\ pc = "loop"
    /\ ~(Len(rows) = 0 /\ block.totalHeight > 0)

\* while (currentRow < block.rows.length || pendingPartialRow !== null)
LoopExit ==
    /\ inLoop
    /\ ~(currentRow < Len(rows) \/ pendingPartialRow # Null)
    /\ pc' = "done"
    /\ lastStep' = <<"exit">>
    /\ UNCHANGED <<fragments>>
    /\ stayOnPage /\ loopLocalsUnchanged /\ inputsUnchanged

inIteration == inLoop /\ (currentRow < Len(rows) \/ pendingPartialRow # Null)

availableHeight == contentBottom - cursorY

RepeatHeaderCountAlways(row, pending, count, height, available) ==
    IF count > 0 /\ height <= available THEN count ELSE 0

\* the repeat header count of one iteration
RepeatHeaderCount(row, pending, count, height, available) ==
    IF row = 0 /\ pending = Null THEN 0
    ELSE IF count > 0 /\ height <= available THEN count
    ELSE 0

repeatHeaderCount ==
    RepeatHeaderCount(currentRow, pendingPartialRow, headerCount, headerHeight, availableHeight)

repeatedHeaderHeight == IF repeatHeaderCount > 0 THEN headerHeight ELSE 0
availableForBody == availableHeight - repeatedHeaderHeight
fullPageHeight == contentBottom

\* ---- continuation of a pending partial row ----
\* a continuation that starts again from the start lines of the pending slice
continuationPartialRowFromSliceStart ==
    LET pending == pendingPartialRow[1]
    IN  computePartialRow(pending.rowIndex, rows[pending.rowIndex + 1].cells,
                          availableForBody, pending.fromLineByCell)

continuationPartialRow ==
    LET pending == pendingPartialRow[1]
    IN  computePartialRow(pending.rowIndex, rows[pending.rowIndex + 1].cells,
                          availableForBody, pending.toLineByCell)

\* toLine < totalLines for some cell of the row
HasLinesLeft(rowIndex, lineByCell) ==
    \E i \in 1..Len(lineByCell) :
        lineByCell[i] < getCellTotalLines(rows[rowIndex + 1].cells[i])

ContinuePartialRow(outcome) ==
    /\ inIteration
    /\ pendingPartialRow # Null
    /\ \E cont \in {continuationPartialRow} :
           LET pending == pendingPartialRow[1]
               rowIndex == pending.rowIndex
               fromLineByCell == pending.toLineByCell
               madeProgress ==
                   \E i \in 1..Len(cont.toLineByCell) : cont.toLineByCell[i] > fromLineByCell[i]
               hasRemainingLinesAfterContinuation == HasLinesLeft(rowIndex, cont.toLineByCell)
               hadRemainingLinesBefore == HasLinesLeft(rowIndex, fromLineByCell)
               fragmentHeight == cont.partialHeight + repeatedHeaderHeight
               emits == fragmentHeight > 0 /\ madeProgress
               rowComplete == ~hasRemainingLinesAfterContinuation
               fragment ==
                   Fragment("continuation", rowIndex, rowIndex + 1, cursorY, fragmentHeight, TRUE,
                            hasRemainingLinesAfterContinuation \/ rowIndex + 1 < Len(rows),
                            repeatHeaderCount, <<cont>>, pageNo)
           IN  /\ outcome = (IF rowComplete THEN "complete"
                             ELSE IF ~madeProgress /\ hadRemainingLinesBefore THEN "retry"
                             ELSE "more")
               /\ IF emits THEN pushFragment(fragment)
                  ELSE IF outcome = "retry" THEN advanceColumn /\ UNCHANGED fragments
                  ELSE stayOnPage /\ UNCHANGED fragments
               /\ currentRow' = IF outcome = "complete" THEN rowIndex + 1 ELSE currentRow
               /\ pendingPartialRow' = IF outcome = "complete" THEN Null
                                       ELSE IF outcome = "more" THEN <<cont>>
                                       ELSE pendingPartialRow
               /\ isTableContinuation' = TRUE
               /\ pc' = "loop"
               /\ lastStep' = <<"continuation", outcome, emits>>
               /\ inputsUnchanged

ContinueRowComplete == ContinuePartialRow("complete")
ContinueRowRetry == ContinuePartialRow("retry")
ContinueRowMore == ContinuePartialRow("more")

\* ---- normal row processing ----
splitPoint == findSplitPoint(rows, currentRow, availableForBody, fullPageHeight)

NothingFits(sp) == sp.endRow = currentRow /\ sp.partialRow = Null

inNormalIteration == inIteration /\ pendingPartialRow = Null

pageHasContentAlways(fragmentCount) == fragmentCount >= 0

\* state.page.fragments.length > 0
pageHasContent(fragmentCount) == fragmentCount > 0

\* no rows fit and the page has content: advance and retry
AdvanceBeforeRow ==
    /\ inNormalIteration
    /\ pageHasContent(pageFragments)
    /\ NothingFits(splitPoint)
    /\ advanceColumn
    /\ pc' = "loop"
    /\ lastStep' = <<"advanceBeforeRow">>
    /\ UNCHANGED <<fragments>>
    /\ loopLocalsUnchanged /\ inputsUnchanged

\* no rows fit on an empty page: force a split of the current row
ForceSplitRow ==
    /\ inNormalIteration
    /\ ~pageHasContent(pageFragments)
    /\ NothingFits(splitPoint)
    /\ \E forcedPartialRow \in
            {computePartialRow(currentRow, rows[currentRow + 1].cells, availableForBody, Null)} :
       LET forcedEndRow == currentRow + 1
           fragmentHeight == forcedPartialRow.partialHeight + repeatedHeaderHeight
       IN  /\ pushFragment(
                 Fragment("forced", currentRow, forcedEndRow, cursorY, fragmentHeight,
                          isTableContinuation,
                          ~forcedPartialRow.isLastPart \/ forcedEndRow < Len(rows),
                          repeatHeaderCount, <<forcedPartialRow>>, pageNo))
           /\ pendingPartialRow' = <<forcedPartialRow>>
    /\ isTableContinuation' = TRUE
    /\ currentRow' = currentRow
    /\ pc' = "loop"
    /\ lastStep' = <<"forced">>
    /\ inputsUnchanged

ContinuesOnNextRowsOnly(endRow, partialRow) == endRow < Len(rows)

\* continuesOnNext of a fragment of the normal path
ContinuesOnNext(endRow, partialRow) ==
    endRow < Len(rows) \/ (IF partialRow # Null THEN ~partialRow[1].isLastPart ELSE FALSE)

rowAfterFragmentPastSlice(keepPending, partialRow, endRow) == endRow

\* currentRow after a fragment of the normal path: the sliced row while lines
\* of it are pending, endRow otherwise
rowAfterFragment(keepPending, partialRow, endRow) ==
    IF keepPending THEN partialRow[1].rowIndex ELSE endRow

\* the rows [currentRow, endRow), the last of them possibly partial
EmitRows ==
    /\ inNormalIteration
    /\ \E sp \in {splitPoint} :
       LET endRow == sp.endRow
           partialRow == sp.partialRow
           headerPart == repeatedHeaderHeight
           fragmentHeight ==
               IF partialRow # Null
               THEN sumRowHeights(rows, currentRow, endRow - 1) + partialRow[1].partialHeight
                    + headerPart
               ELSE calculateFragmentHeight(currentRow, endRow, repeatHeaderCount, rows)
           keepPending == partialRow # Null /\ ~partialRow[1].isLastPart
       IN  /\ ~NothingFits(sp)
           /\ pushFragment(
                 Fragment("normal", currentRow, endRow, cursorY, fragmentHeight,
                          isTableContinuation,
                          ContinuesOnNext(endRow, partialRow),
                          repeatHeaderCount, partialRow, pageNo))
           /\ pendingPartialRow' = IF keepPending THEN partialRow ELSE Null
           /\ currentRow' = rowAfterFragment(keepPending, partialRow, endRow)
    /\ isTableContinuation' = TRUE
    /\ pc' = "loop"
    /\ lastStep' = <<"normal">>
    /\ inputsUnchanged

Next ==
    \/ SkipAnchored
    \/ LayoutFloating
    \/ LayoutKeepTogether
    \/ MonolithicEmit
    \/ PreflightCantSplit
    \/ PreflightSplittable
    \/ PreflightFallback
    \/ PreflightEmptyPage
    \/ ZeroRowPlaceholder
    \/ LoopExit
    \/ ContinueRowComplete
    \/ ContinueRowRetry
    \/ ContinueRowMore
    \/ AdvanceBeforeRow
    \/ ForceSplitRow
    \/ EmitRows

Spec == Init /\ [][Next]_vars

\* the loop is sequential code: a step that can be taken is taken
FairSpec == Spec /\ WF_vars(Next)

(***************************************************************************)
(* computePartialRow as a pure function of bounded inputs.                 *)
(***************************************************************************)
PlannerLineHeights == {10, 30}

RECURSIVE LineSeqs(_)
\* the line sequences of length 0..n
LineSeqs(n) ==
    IF n = 0 THEN { <<>> }
    ELSE LET shorter == LineSeqs(n - 1)
         IN  shorter \cup { Append(q, h) : q \in { r \in shorter : Len(r) = n - 1 },
                                            h \in PlannerLineHeights }

\* attrs.padding of a cell: <<top, bottom>>, either possibly missing
PlannerPaddings == { <<Absent, Absent>>, <<0, 0>>, <<6, Absent>> }

PlannerCells ==
    { makeCell(ls, pd[1], pd[2]) : ls \in LineSeqs(MaxPlannerLines), pd \in PlannerPaddings }

PlannerRows == { <<c>> : c \in PlannerCells } \cup (PlannerCells \X PlannerCells)

PlannerHeights == {0, 14, 24, 34, 44, 74}

\* the start lines a caller can pass: none, or one within each cell's lines
PlannerFroms(cells) ==
    { Null } \cup
    { f \in [1..Len(cells) -> 0..MaxPlannerLines] :
        \A i \in 1..Len(cells) : f[i] <= getCellTotalLines(cells[i]) }

idleTable == [rows |-> <<>>, totalHeight |-> 0, kind |-> "inline"]

InitPlanner ==
    /\ \E cells \in PlannerRows, h \in PlannerHeights :
         \E f \in PlannerFroms(cells) :
            cprArgs = [cells |-> cells, availableHeight |-> h, fromLineByCell |-> f]
    /\ cprResult = Null
    /\ block = idleTable
    /\ contentBottom = 0 /\ marginTop = 0 /\ cursorY = 0
    /\ pageFragments = 0 /\ pageNo = 0
    /\ fragments = <<>>
    /\ currentRow = 0
    /\ isTableContinuation = FALSE
    /\ pendingPartialRow = Null
    /\ pc = "planner"
    /\ lastStep = <<"none">>
    /\ callArgs = Null
    /\ callResult = Null

PlanRow ==
    /\ pc = "planner"
    /\ cprResult = Null
    /\ cprResult' = << computePartialRow(0, cprArgs.cells, cprArgs.availableHeight,
                                         cprArgs.fromLineByCell) >>
    /\ UNCHANGED <<cprArgs>>
    /\ UNCHANGED driverVars
    /\ UNCHANGED helperVars

NextPlanner == PlanRow

SpecPlanner == InitPlanner /\ [][NextPlanner]_vars

(***************************************************************************)
(* Placement of a fragment.  attrs is [defined], and if defined its        *)
(* tableIndent [isObject, widthKind, width]: widthKind says what width is  *)
(* ("missing", "string", "nan", "infinity" or "finite", the only kind      *)
(* whose width is read).                                                   *)
(***************************************************************************)
getTableIndentWidth(attrs) ==
    IF ~attrs.defined THEN 0
    ELSE IF ~attrs.tableIndent.isObject THEN 0
    ELSE IF attrs.tableIndent.widthKind = "missing" THEN 0
    ELSE IF attrs.tableIndent.widthKind = "string" THEN 0
    ELSE IF attrs.tableIndent.widthKind \in {"nan", "infinity"} THEN 0
    ELSE attrs.tableIndent.width

applyTableIndentUnclamped(x, width, indent) == [x |-> x + indent, width |-> width - indent]

applyTableIndent(x, width, indent) == [x |-> x + indent, width |-> Max(0, width - indent)]

\* Math.min(columnWidth, measure.totalWidth || columnWidth)
baseWidth(columnWidth, totalWidth) ==
    Min(columnWidth, IF totalWidth # 0 THEN totalWidth ELSE columnWidth)

\* x and width of a fragment pushed by layoutMonolithicTable or layoutTableBlock;
\* baseX is columnX(state.columnIndex)
placeFragment(baseX, columnWidth, totalWidth, attrs) ==
    applyTableIndent(baseX, baseWidth(columnWidth, totalWidth), getTableIndentWidth(attrs))

\* columnWidths[columnIndex] || DEFAULT_MIN_WIDTH, between 25 and 200
calculateColumnMinWidth(columnIndex, columnWidths) ==
    LET measuredWidth == IF columnIndex < Len(columnWidths) /\ columnWidths[columnIndex + 1] # 0
                         THEN columnWidths[columnIndex + 1] ELSE DEFAULT_MIN_WIDTH
    IN  Max(DEFAULT_MIN_WIDTH, Min(measuredWidth, 200))

generateColumnBoundaries(columnWidths) ==
    [i \in 1..Len(columnWidths) |->
        [index     |-> i - 1,
         x         |-> SumFromTo(columnWidths, 0, i - 1),
         width     |-> columnWidths[i],
         minWidth  |-> calculateColumnMinWidth(i - 1, columnWidths),
         resizable |-> TRUE]]

createAnchoredTableFragmentIndented(rowCount, attrs, totalWidth, totalHeight, columnWidths, x, y) ==
    [fromRow |-> 0, toRow |-> rowCount,
     x |-> applyTableIndent(x, totalWidth, getTableIndentWidth(attrs)).x, y |-> y,
     width |-> applyTableIndent(x, totalWidth, getTableIndentWidth(attrs)).width,
     height |-> totalHeight,
     partialRow |-> Null,
     metadata |-> [columnBoundaries |-> generateColumnBoundaries(columnWidths),
                   coordinateSystem |-> "fragment"]]

\* block: rowCount rows and attrs; measure: totalWidth, totalHeight, columnWidths
createAnchoredTableFragment(rowCount, attrs, totalWidth, totalHeight, columnWidths, x, y) ==
    [fromRow |-> 0, toRow |-> rowCount,
     x |-> x, y |-> y,
     width |-> IF totalWidth = Absent THEN 0 ELSE totalWidth,
     height |-> IF totalHeight = Absent THEN 0 ELSE totalHeight,
     partialRow |-> Null,
     metadata |-> [columnBoundaries |-> generateColumnBoundaries(columnWidths),
                   coordinateSystem |-> "fragment"]]

(***************************************************************************)
(* renderTableCell.  The painter gets the cell measure, the cell (its      *)
(* blocks' kinds are all it reads of them here) and the line range; the    *)
(* result is the sequence of its renderLine calls, each <<block index,     *)
(* line index within the block>>, both 0-based.                            *)
(***************************************************************************)
\* cell?.blocks ?? (cell?.paragraph ? [cell.paragraph] : [])
painterCellBlocks(cell) ==
    IF ~cell.defined THEN <<>>
    ELSE IF cell.blocksDefined THEN cell.blockKinds
    ELSE IF cell.hasParagraph THEN <<"paragraph">>
    ELSE <<>>

\* cellMeasure?.blocks ?? (cellMeasure?.paragraph ? [cellMeasure.paragraph] : [])
painterBlockMeasures(cellMeasure, blocksDefined) ==
    IF blocksDefined THEN cellMeasure.blocks
    ELSE IF cellMeasure.hasParagraph
         THEN << [kind |-> "paragraph", lines |-> cellMeasure.paragraph] >>
    ELSE <<>>

RECURSIVE blockLineCounts(_, _, _)
\* the sum of blockLineCounts over the first n blocks, from block i (0-based)
blockLineCounts(blockMeasures, i, n) ==
    IF i >= n THEN 0
    ELSE (IF blockMeasures[i + 1].kind = "paragraph" THEN Len(blockMeasures[i + 1].lines) ELSE 0)
         + blockLineCounts(blockMeasures, i + 1, n)

localStartLineGlobal(globalFromLine, blockStartGlobal) == globalFromLine

\* Math.max(0, globalFromLine - blockStartGlobal)
localStartLine(globalFromLine, blockStartGlobal) == Max(0, globalFromLine - blockStartGlobal)

\* Math.min(blockLineCount, globalToLine - blockStartGlobal)
localEndLine(blockLineCount, globalToLine, blockStartGlobal) ==
    Min(blockLineCount, globalToLine - blockStartGlobal)

RECURSIVE RenderBlocks(_, _, _, _, _, _)
\* the block loop of renderTableCell from block i with cumulativeLineCount
RenderBlocks(blockMeasures, cellBlocks, i, cumulativeLineCount, globalFromLine, globalToLine) ==
    IF i >= Min(Len(blockMeasures), Len(cellBlocks)) THEN <<>>
    ELSE IF blockMeasures[i + 1].kind = "paragraph" /\ cellBlocks[i + 1] = "paragraph"
    THEN LET blockLineCount == Len(blockMeasures[i + 1].lines)
             blockStartGlobal == cumulativeLineCount
             blockEndGlobal == cumulativeLineCount + blockLineCount
             first == localStartLine(globalFromLine, blockStartGlobal)
             last == localEndLine(blockLineCount, globalToLine, blockStartGlobal)
             calls == IF blockEndGlobal <= globalFromLine \/ blockStartGlobal >= globalToLine
                      THEN <<>>
                      ELSE [j \in 1..Max(0, Min(last, blockLineCount) - first) |->
                               <<i, first + j - 1>>]
         IN  calls \o RenderBlocks(blockMeasures, cellBlocks, i + 1,
                                   cumulativeLineCount + blockLineCount,
                                   globalFromLine, globalToLine)
    ELSE RenderBlocks(blockMeasures, cellBlocks, i + 1, cumulativeLineCount,
                      globalFromLine, globalToLine)

\* the renderLine calls of renderTableCell; fromLine, toLine: Absent if not given
renderTableCell(cellMeasure, measureBlocksDefined, cell, fromLine, toLine) ==
    LET cellBlocks == painterCellBlocks(cell)
        blockMeasures == painterBlockMeasures(cellMeasure, measureBlocksDefined)
        totalLines == blockLineCounts(blockMeasures, 0, Min(Len(blockMeasures), Len(cellBlocks)))
        globalFromLine == IF fromLine = Absent THEN 0 ELSE fromLine
        globalToLine == IF toLine = Absent THEN totalLines ELSE toLine
    IN  IF Len(cellBlocks) > 0 /\ Len(blockMeasures) > 0
        THEN RenderBlocks(blockMeasures, cellBlocks, 0, 0, globalFromLine, globalToLine)
        ELSE <<>>

RECURSIVE FlattenLineIds(_, _)
\* FlattenParagraphs, each line named by <<block index, line index>>
FlattenLineIds(blocks, i) ==
    IF i >= Len(blocks) THEN <<>>
    ELSE (IF blocks[i + 1].kind = "paragraph"
          THEN [j \in 1..Len(blocks[i + 1].lines) |-> <<i, j - 1>>] ELSE <<>>)
         \o FlattenLineIds(blocks, i + 1)

\* getCellLines, each line named by <<block index, line index>>
getCellLineIds(cell) ==
    IF Len(cell.blocks) > 0 THEN FlattenLineIds(cell.blocks, 0)
    ELSE IF cell.hasParagraph THEN [j \in 1..Len(cell.paragraph) |-> <<0, j - 1>>]
    ELSE <<>>

(***************************************************************************)
(* SpecHelpers: one call of a pure function on arguments from bounded sets *)
(***************************************************************************)
MaxPainterLines == 3

\* cell measures of 0..MaxPainterLines lines of one height
PainterMeasures ==
    { makeCell([j \in 1..n |-> 10], Absent, Absent) : n \in 0..MaxPainterLines }

RECURSIVE KindsOf(_)
KindsOf(blocks) == IF blocks = <<>> THEN <<>> ELSE <<Head(blocks).kind>> \o KindsOf(Tail(blocks))

\* the cell the measure was taken of
cellOfMeasure(cellMeasure, blocksDefined) ==
    [defined       |-> TRUE,
     blocksDefined |-> blocksDefined,
     blockKinds    |-> KindsOf(cellMeasure.blocks),
     hasParagraph  |-> cellMeasure.hasParagraph]

\* the cells a painter call can get with a measure: the measured cell, no cell
\* at all, and cells that do not match the measure (a block less, a block of
\* another kind)
PainterCellsFor(cellMeasure, blocksDefined) ==
    LET measured == cellOfMeasure(cellMeasure, blocksDefined)
        kinds == measured.blockKinds
    IN  { measured, [measured EXCEPT !.defined = FALSE] }
        \cup (IF Len(kinds) > 0
              THEN { [measured EXCEPT !.blockKinds = SubSeq(kinds, 1, Len(kinds) - 1)],
                     [measured EXCEPT !.blockKinds = [kinds EXCEPT ![1] = "image"]] }
              ELSE {})

\* renderTableCell calls: blocks of the measure is undefined or an array (an
\* array whenever it has blocks), the range is within the planner's lines
PainterCallsFor(m, bd) ==
    { [fn |-> "renderTableCell", cellMeasure |-> m, measureBlocksDefined |-> bd,
       cell |-> c, fromLine |-> from, toLine |-> to] :
        c \in PainterCellsFor(m, bd),
        from \in 0..getCellTotalLines(m), to \in 0..getCellTotalLines(m) }

PainterCalls ==
    { a \in UNION { PainterCallsFor(m, bd) : m \in PainterMeasures, bd \in BOOLEAN } :
        /\ Len(a.cellMeasure.blocks) > 0 => a.measureBlocksDefined
        /\ a.fromLine <= a.toLine }

\* block.attrs with its tableIndent
IndentWidths == {0, 50, -20, 450}

TableAttrs ==
    { [defined |-> FALSE] }
    \cup { [defined |-> TRUE, tableIndent |-> [isObject |-> FALSE]] }
    \cup { [defined |-> TRUE, tableIndent |-> [isObject |-> TRUE, widthKind |-> k, width |-> 0]] :
             k \in {"missing", "string", "nan", "infinity"} }
    \cup { [defined |-> TRUE,
            tableIndent |-> [isObject |-> TRUE, widthKind |-> "finite", width |-> w]] :
             w \in IndentWidths }

ColumnWidthLists == { <<>>, <<100>>, <<0, 300>> }

AnchoredCalls ==
    { [fn |-> "createAnchoredTableFragment", rowCount |-> n, attrs |-> a,
       totalWidth |-> tw, totalHeight |-> th, columnWidths |-> cw, x |-> x, y |-> y] :
        n \in 0..MaxRows, a \in TableAttrs, tw \in {0, 300}, th \in {0, 500},
        cw \in ColumnWidthLists, x \in {-10, 100}, y \in {0, 700} }

PlacementCalls ==
    { [fn |-> "placeFragment", baseX |-> bx, columnWidth |-> w, totalWidth |-> tw,
       attrs |-> a] :
        bx \in {0, 100}, w \in {400}, tw \in {0, 300, 500}, a \in TableAttrs }

\* rows of the finder's tables: the repeatHeader flag is not read by it
FinderRows == { r \in Rows : ~r.repeatHeader }

\* what is left of the page where the finder is called: less than nothing
\* after a fragment that ran past contentBottom, up to a full page
FinderHeights == {-4, 0, 10, 26, 40, 60}

\* fullPageHeight: 0 when the optional argument is not given
FinderCalls ==
    { [fn |-> "findSplitPoint", rows |-> rs, startRow |-> sr, availableHeight |-> h,
       fullPageHeight |-> fp] :
        rs \in SeqsUpTo(FinderRows, MaxRows), sr \in 0..(MaxRows - 1),
        h \in FinderHeights, fp \in {0, 60} }

HelperCalls ==
    PainterCalls \cup AnchoredCalls \cup PlacementCalls
    \cup { a \in FinderCalls : a.startRow < Len(a.rows) }

InitHelpers ==
    /\ callArgs \in HelperCalls
    /\ callResult = Null
    /\ cprArgs = Null /\ cprResult = Null
    /\ block = idleTable
    /\ contentBottom = 0 /\ marginTop = 0 /\ cursorY = 0
    /\ pageFragments = 0 /\ pageNo = 0
    /\ fragments = <<>>
    /\ currentRow = 0
    /\ isTableContinuation = FALSE
    /\ pendingPartialRow = Null
    /\ pc = "helper"
    /\ lastStep = <<"none">>

Call(fn, result) ==
    /\ pc = "helper"
    /\ callResult = Null
    /\ callArgs.fn = fn
    /\ callResult' = <<result>>
    /\ UNCHANGED <<callArgs>>
    /\ UNCHANGED driverVars
    /\ UNCHANGED plannerVars

RenderCell ==
    Call("renderTableCell",
         renderTableCell(callArgs.cellMeasure, callArgs.measureBlocksDefined, callArgs.cell,
                         callArgs.fromLine, callArgs.toLine))

CreateAnchoredFragment ==
    Call("createAnchoredTableFragment",
         createAnchoredTableFragment(callArgs.rowCount, callArgs.attrs, callArgs.totalWidth,
                                     callArgs.totalHeight, callArgs.columnWidths,
                                     callArgs.x, callArgs.y))

PlaceFragment ==
    Call("placeFragment",
         placeFragment(callArgs.baseX, callArgs.columnWidth, callArgs.totalWidth,
                       callArgs.attrs))

FindSplit ==
    Call("findSplitPoint",
         findSplitPoint(callArgs.rows, callArgs.startRow, callArgs.availableHeight,
                        callArgs.fullPageHeight))

NextHelpers == RenderCell \/ CreateAnchoredFragment \/ PlaceFragment \/ FindSplit

SpecHelpers == InitHelpers /\ [][NextHelpers]_vars

(***************************************************************************)
(* Properties of the driver (Spec, FairSpec).                              *)
(***************************************************************************)
FragmentIndices == 1..Len(fragments)
RowIndices == 0..(Len(rows) - 1)

\* the table went through the main loop with at least one row
OnSplitPath ==
    /\ block.kind = "inline"
    /\ block.totalHeight > contentBottom - marginTop
    /\ Len(rows) > 0

SlicesRow(f, r) == f.partialRow # Null /\ f.partialRow[1].rowIndex = r
EmitsWholeRow(f, r) == f.fromRow <= r /\ r < f.toRow /\ ~SlicesRow(f, r)

WholeEmissions(r) == { k \in FragmentIndices : EmitsWholeRow(fragments[k], r) }
Slices(r) == { k \in FragmentIndices : SlicesRow(fragments[k], r) }

LineInSlice(k, i, l) ==
    /\ fragments[k].partialRow[1].fromLineByCell[i] <= l
    /\ l < fragments[k].partialRow[1].toLineByCell[i]

EveryLineInOneSlice(r) ==
    \A i \in 1..Len(rows[r + 1].cells) :
        \A l \in 0..(getCellTotalLines(rows[r + 1].cells[i]) - 1) :
            Cardinality({ k \in Slices(r) : LineInSlice(k, i, l) }) = 1

RowCoveredOnce(r) ==
    \/ Cardinality(WholeEmissions(r)) = 1 /\ Slices(r) = {}
    \/ WholeEmissions(r) = {} /\ Slices(r) # {} /\ EveryLineInOneSlice(r)

\* C1: once the loop of a split table has ended, every row is in the fragments
\* exactly once: whole in one fragment, or in partialRow slices that hold every
\* line of every cell exactly once.
C1_CoversExactlyOnce ==
    (pc = "done" /\ OnSplitPath) => \A r \in RowIndices : RowCoveredOnce(r)

\* C2: layoutTableBlock terminates: the loop is left after finitely many
\* iterations, whatever the table and the page.
C2_Terminates == <>(pc = "done")

\* C3: a step that appends a fragment places it at the cursor and moves the
\* cursor to its bottom edge; any other step leaves the cursor alone unless it
\* is the paginator's advanceColumn.
C3_CursorCorrect ==
    [][ IF fragments' # fragments
        THEN /\ Len(fragments') = Len(fragments) + 1
             /\ SubSeq(fragments', 1, Len(fragments)) = fragments
             /\ fragments'[Len(fragments')].y = cursorY
             /\ cursorY' = fragments'[Len(fragments')].y + fragments'[Len(fragments')].height
             /\ pageNo' = pageNo
        ELSE cursorY' = cursorY \/ pageNo' # pageNo ]_vars

\* fragments of every loop path have been appended and the cursor sits at the
\* bottom of the last one
C3_Witness ==
    /\ \E k \in FragmentIndices : fragments[k].path = "forced"
    /\ \E k \in FragmentIndices : fragments[k].path = "continuation"
    /\ Len(fragments) >= 3
    /\ cursorY = fragments[Len(fragments)].y + fragments[Len(fragments)].height

\* C4: a cantSplit row no taller than the full page height never carries a
\* partialRow.
C4_CantSplitNeverPartial ==
    \A k \in FragmentIndices :
        fragments[k].partialRow # Null =>
            LET row == rows[fragments[k].partialRow[1].rowIndex + 1]
            IN  ~(row.cantSplit /\ row.height <= contentBottom)

PartialFragments == { k \in FragmentIndices : fragments[k].partialRow # Null }

\* C6: every partialRow of an emitted fragment has, in every cell,
\* 0 <= fromLineByCell <= toLineByCell <= the cell's number of lines.
C6_LineRangesInBounds ==
    \A k \in PartialFragments :
        LET p == fragments[k].partialRow[1]
            cells == rows[p.rowIndex + 1].cells
        IN  /\ Len(p.fromLineByCell) = Len(cells)
            /\ Len(p.toLineByCell) = Len(cells)
            /\ \A i \in 1..Len(cells) :
                   /\ 0 <= p.fromLineByCell[i]
                   /\ p.fromLineByCell[i] <= p.toLineByCell[i]
                   /\ p.toLineByCell[i] <= Len(FlattenParagraphs(cells[i].blocks))
                                           + Len(cells[i].paragraph)

\* a row has been emitted in three slices, the last two continuing it
C6_Witness ==
    \E k \in PartialFragments :
        /\ k + 2 \in PartialFragments
        /\ fragments[k + 1].path = "continuation"
        /\ fragments[k + 2].path = "continuation"
        /\ fragments[k + 2].partialRow[1].rowIndex = fragments[k].partialRow[1].rowIndex
        /\ \E i \in 1..Len(fragments[k + 2].partialRow[1].fromLineByCell) :
               fragments[k + 2].partialRow[1].fromLineByCell[i] > 0

\* what a reader takes an absent repeatHeaderCount for
RepeatedHeaders(f) == IF f.repeatHeaderCount = Absent THEN 0 ELSE f.repeatHeaderCount

\* C8: the first fragment of a table repeats no header (the monolithic and
\* placeholder fragments carry no count at all); a later fragment repeats all
\* headerCount header rows if their height fits in contentBottom - y, the
\* space left where the fragment starts, and none otherwise.
C8_HeaderRepetitionRule ==
    \A k \in FragmentIndices :
        RepeatedHeaders(fragments[k]) =
            IF k = 1 THEN 0
            ELSE IF sumRowHeights(rows, 0, countHeaderRows(rows)) <= contentBottom - fragments[k].y
                 THEN countHeaderRows(rows)
                 ELSE 0

\* a table with headers has a later fragment that repeats them and another
\* later fragment on which they are suppressed for lack of room
C8_Witness ==
    /\ countHeaderRows(rows) > 0
    /\ \E k \in FragmentIndices : k > 1 /\ fragments[k].repeatHeaderCount = countHeaderRows(rows)
    /\ \E k \in FragmentIndices :
           /\ k > 1
           /\ fragments[k].repeatHeaderCount = 0
           /\ sumRowHeights(rows, 0, countHeaderRows(rows)) > contentBottom - fragments[k].y

\* C9: a fragment that repeats headers starts its body after the header rows.
C9_HeadersNotAlsoBody ==
    \A k \in FragmentIndices :
        RepeatedHeaders(fragments[k]) > 0 =>
            fragments[k].fromRow >= fragments[k].repeatHeaderCount

\* C10: a table that is not anchored and no taller than one page's content
\* height (contentBottom - margins.top) ends as one fragment spanning all rows
\* with no partialRow, and never has more than one.
C10_FitsOnePageNeverSplit ==
    (block.kind # "anchored" /\ block.totalHeight <= contentBottom - marginTop) =>
        /\ Len(fragments) <= 1
        /\ pc = "done" =>
              /\ Len(fragments) = 1
              /\ fragments[1].fromRow = 0
              /\ fragments[1].toRow = Len(rows)
              /\ fragments[1].partialRow = Null

\* a table of several rows exactly as tall as the page's content height was
\* laid out from a page that had less room than that left
C10_Witness ==
    /\ pc = "done"
    /\ block.kind = "inline"
    /\ Len(rows) >= 2
    /\ block.totalHeight = contentBottom - marginTop
    /\ Len(fragments) = 1
    /\ fragments[1].page = 1

(***************************************************************************)
(* Properties of computePartialRow (SpecPlanner).                          *)
(***************************************************************************)
planned == cprResult[1]
plannedCells == cprArgs.cells
CellIndices == 1..Len(plannedCells)
LinesOf(i) == FlattenParagraphs(plannedCells[i].blocks) \o plannedCells[i].paragraph
Advance(i) == planned.toLineByCell[i] - planned.fromLineByCell[i]

PassOneAdvance(i) ==
    FirstPass(plannedCells[i], planned.fromLineByCell[i], cprArgs.availableHeight).cutLine
    - planned.fromLineByCell[i]

PositiveAdvances == { PassOneAdvance(i) : i \in CellIndices } \ {0}

LeastAdvance ==
    IF PositiveAdvances = {} THEN 0
    ELSE CHOOSE m \in PositiveAdvances : \A k \in PositiveAdvances : m <= k

RECURSIVE SliceLinesHeight(_, _, _)
\* the sum of lineHeight over the lines [from, to) of a cell
SliceLinesHeight(lines, from, to) ==
    IF from >= to THEN 0 ELSE lines[to] + SliceLinesHeight(lines, from, to - 1)

PaddingOrDefault(value, default) == IF value = Absent THEN default ELSE value

SliceHeightOfCell(i) ==
    SliceLinesHeight(LinesOf(i), planned.fromLineByCell[i], planned.toLineByCell[i])
    + PaddingOrDefault(plannedCells[i].padTop, 2)
    + PaddingOrDefault(plannedCells[i].padBottom, 2)

\* C7: partialHeight is the maximum over the cells of the height of the lines
\* [fromLineByCell, toLineByCell) plus the cell's top and bottom padding,
\* 2 and 2 when absent.
C7_PartialHeightIsMaxOverCells ==
    cprResult # Null =>
        /\ \A i \in CellIndices : planned.partialHeight >= SliceHeightOfCell(i)
        /\ \E i \in CellIndices : planned.partialHeight = SliceHeightOfCell(i)

\* a realigned slice of two cells with different paddings and different heights
C7_Witness ==
    /\ cprResult # Null
    /\ ~planned.allCellsCompleteInFirstPass
    /\ Len(plannedCells) = 2
    /\ plannedCells[1].padTop = 6 /\ plannedCells[2].padTop = Absent
    /\ Advance(1) >= 1 /\ Advance(2) >= 1
    /\ SliceHeightOfCell(1) < SliceHeightOfCell(2)
    /\ planned.partialHeight = SliceHeightOfCell(2)

(***************************************************************************)
(* Properties of the early exits and the monolithic path (Spec).           *)
(***************************************************************************)
\* C11: on the monolithic path advanceColumn is called exactly when
\* cursorY + totalHeight > contentBottom and the page already has fragments,
\* once and before the fragment; the fragment is the table's only one and its
\* height is min(totalHeight, contentBottom - cursorY) on the page it is put on.
C11_MonolithicAdvanceAndHeight ==
    [][ /\ (pc = "start" /\ pc' = "monolithic") =>
              /\ (pageNo' # pageNo) <=>
                     (cursorY + block.totalHeight > contentBottom /\ pageFragments > 0)
              /\ pageNo' # pageNo => pageNo' = pageNo + 1 /\ pageFragments' = 0
              /\ fragments' = fragments
        /\ pc = "monolithic" =>
              /\ pc' = "done"
              /\ pageNo' = pageNo
              /\ fragments = <<>>
              /\ Len(fragments') = 1
              /\ fragments'[1].y = cursorY
              /\ fragments'[1].page = pageNo
              /\ fragments'[1].height = Min(block.totalHeight, contentBottom - cursorY)
      ]_vars

\* a table taller than a page was moved to a fresh page and clipped there
C11_Witness ==
    /\ pc = "done"
    /\ Len(fragments) = 1
    /\ fragments[1].path = "monolithic"
    /\ fragments[1].page = 1
    /\ fragments[1].height < block.totalHeight
    /\ fragments[1].height = contentBottom - marginTop

C13_AnchoredLeavesPaginatorAlone ==
    [][ block.kind = "anchored" =>
           /\ UNCHANGED <<fragments, cursorY, pageFragments, pageNo>>
           /\ pc = "start" /\ pc' = "done"
      ]_vars

\* an anchored table with rows has returned, on a page with earlier content
C13_Witness ==
    /\ pc = "done"
    /\ block.kind = "anchored"
    /\ Len(rows) >= 1
    /\ lastStep = <<"anchored">>
    /\ pageFragments = 1
    /\ fragments = <<>>

(***************************************************************************)
(* Properties of the main loop (Spec).                                     *)
(***************************************************************************)
LastFragment == fragments[Len(fragments)]

\* C14: while a pending partial row is continued, advanceColumn is called only
\* from a page that already has fragments, and two consecutive fragments of
\* the same row are at most one page apart.
C14_RetryOnlyFromUsedPage ==
    [][ /\ (pc = "loop" /\ pendingPartialRow # Null /\ pageNo' # pageNo) => pageFragments > 0
        /\ (/\ Len(fragments') = Len(fragments) + 1
            /\ fragments # <<>>
            /\ LastFragment.partialRow # Null
            /\ fragments'[Len(fragments')].path = "continuation"
            /\ pageNo < MaxPages)
           => fragments'[Len(fragments')].page <= LastFragment.page + 1
      ]_vars

RECURSIVE FirstNonFitting(_, _, _)
\* the first row from i on that does not fit in `room` after the rows before it;
\* -1 when all rows fit
FirstNonFitting(rs, i, room) ==
    IF i >= Len(rs) THEN -1
    ELSE IF rs[i + 1].height <= room THEN FirstNonFitting(rs, i + 1, room - rs[i + 1].height)
    ELSE i

OverTallRows == { r \in RowIndices : rows[r + 1].height > contentBottom }

SplittableStart ==
    /\ pc \in {"start", "loop"}
    /\ ~isAnchored(block) /\ ~isFloating(block)
    /\ block.totalHeight > contentBottom - marginTop
    /\ Len(rows) > 0
    /\ ~rows[1].cantSplit
    /\ fragments = <<>>
    /\ pageNo = 0
    /\ pageFragments > 0

\* at least one line of row 0 can be placed in the available height
LineOfFirstRowFits ==
    AdvancesSomeLine(computePartialRow(0, rows[1].cells, contentBottom - cursorY, Null))

\* C16: when the table starts on a page with fragments and row 0 is
\* splittable, no step before the first fragment calls advanceColumn if a
\* line of row 0 can be placed in the available height; if none can, the
\* preflight calls it.
C16_StartsOnCurrentPageIfLineFits ==
    [][ SplittableStart =>
           IF LineOfFirstRowFits THEN pageNo' = pageNo
           ELSE pc = "start" => pageNo' # pageNo
      ]_vars

\* continuity flags of the fragments emitted so far
FlagsMatchSequence ==
    \A k \in FragmentIndices :
        /\ fragments[k].continuesFromPrev <=> (k > 1)
        /\ (k < Len(fragments)) => fragments[k].continuesOnNext
        /\ (pc = "done" /\ k = Len(fragments)) => ~fragments[k].continuesOnNext

RECURSIVE SumOfHeights(_)
SumOfHeights(fs) == IF fs = <<>> THEN 0 ELSE Head(fs).height + SumOfHeights(Tail(fs))

RECURSIVE SumOfRepeatedHeaders(_)
\* the height of the header rows repeated at the top of the fragments
SumOfRepeatedHeaders(fs) ==
    IF fs = <<>> THEN 0
    ELSE sumRowHeights(rows, 0, RepeatedHeaders(Head(fs))) + SumOfRepeatedHeaders(Tail(fs))

\* the table is not laid out monolithically
SplitPathTaken ==
    block.kind = "inline" /\ block.totalHeight > contentBottom - marginTop

\* C18 as stated: whenever the split path is taken, the heights of the
\* fragments emitted for the table sum up to measure.totalHeight.
C18_HeightsSumToTotal ==
    (pc = "done" /\ SplitPathTaken) => SumOfHeights(fragments) = block.totalHeight

\* C18: when a table with rows is split at row boundaries only (no fragment
\* carries a partialRow), the heights of its fragments sum up to
\* measure.totalHeight plus the height of the header rows repeated at the top
\* of the fragments.
C18_HeightsSumToTotalPlusHeaders ==
    (pc = "done" /\ OnSplitPath /\ PartialFragments = {}) =>
        SumOfHeights(fragments) = block.totalHeight + SumOfRepeatedHeaders(fragments)

\* a table split at a row boundary whose second fragment repeats the header
C18_Witness ==
    /\ pc = "done"
    /\ OnSplitPath
    /\ PartialFragments = {}
    /\ Len(fragments) >= 2
    /\ SumOfRepeatedHeaders(fragments) > 0
    /\ SumOfHeights(fragments) = block.totalHeight + SumOfRepeatedHeaders(fragments)

\* A two-row table on the split path, both rows splittable, whose first
\* fragment starts with row 0 on the starting page (its y is then the cursor
\* the table started at): row 0 fits in the space available there and row 1
\* does not fit in what remains.
TwoRowsSecondDoesNotFit ==
    /\ OnSplitPath
    /\ Len(rows) = 2
    /\ ~rows[1].cantSplit /\ ~rows[2].cantSplit
    /\ fragments # <<>>
    /\ fragments[1].page = 0 /\ fragments[1].fromRow = 0
    /\ rows[1].height <= contentBottom - fragments[1].y
    /\ rows[1].height + rows[2].height > contentBottom - fragments[1].y

\* C19: a two-row table with both rows splittable, row 0 fitting on the
\* starting page and row 1 not fitting in what remains, is emitted as exactly
\* two fragments.
C19_TwoRowsTwoFragments ==
    (pc = "done" /\ TwoRowsSecondDoesNotFit) => Len(fragments) = 2

\* C20: a non-anchored table with zero rows and totalHeight 0 emits no
\* fragment.
C20_EmptyTableNoFragments ==
    (~isAnchored(block) /\ Len(rows) = 0 /\ block.totalHeight = 0) => fragments = <<>>

(***************************************************************************)
(* Properties of the placeholder, the finder and the loop (Spec)           *)
(***************************************************************************)
ZeroRowsWithHeight == ~isAnchored(block) /\ Len(rows) = 0 /\ block.totalHeight > 0

\* C21: a non-anchored table with zero rows and totalHeight > 0 gets at most
\* one fragment, and exactly one when the layout has returned: fromRow = 0,
\* toRow = 0, height = min(totalHeight, contentBottom - y) at the y where it
\* is placed; the layout returns from the monolithic path or the placeholder
\* branch, not from the main loop.
C21_ZeroRowPlaceholder ==
    ZeroRowsWithHeight =>
        /\ Len(fragments) <= 1
        /\ \A k \in FragmentIndices :
               /\ fragments[k].fromRow = 0 /\ fragments[k].toRow = 0
               /\ fragments[k].height = Min(block.totalHeight, contentBottom - fragments[k].y)
        /\ pc = "done" =>
               /\ Len(fragments) = 1
               /\ lastStep \in {<<"placeholder">>, <<"monolithic">>}

\* a placeholder taller than what is left of its page, clipped
C21_Witness ==
    /\ ZeroRowsWithHeight
    /\ pc = "done"
    /\ lastStep = <<"placeholder">>
    /\ Len(fragments) = 1
    /\ fragments[1].height < block.totalHeight

(***************************************************************************)
(* Properties of the painter and the other pure functions (SpecHelpers)    *)
(***************************************************************************)
called(fn) == callArgs # Null /\ callArgs.fn = fn /\ callResult # Null
result == callResult[1]

\* the lines of the planner's flattening with index in [fromLine, toLine)
PlannedLineIds ==
    SubSeq(getCellLineIds(callArgs.cellMeasure), callArgs.fromLine + 1, callArgs.toLine)

MeasureMatchesCell ==
    /\ callArgs.cell = cellOfMeasure(callArgs.cellMeasure, callArgs.measureBlocksDefined)
    /\ ~(callArgs.measureBlocksDefined /\ Len(callArgs.cellMeasure.blocks) = 0
         /\ callArgs.cellMeasure.hasParagraph)

IndentOfCall ==
    IF callArgs.attrs.defined /\ callArgs.attrs.tableIndent.isObject
       /\ callArgs.attrs.tableIndent.widthKind = "finite"
    THEN callArgs.attrs.tableIndent.width ELSE 0

\* C23: createAnchoredTableFragment returns a fragment of all rows at the
\* given x and y (no tableIndent applied), as wide and as tall as the measure
\* (no clipping), without partialRow, with coordinateSystem "fragment" and one
\* column boundary per entry of columnWidths.
C23_AnchoredFragment ==
    called("createAnchoredTableFragment") =>
        /\ result.fromRow = 0 /\ result.toRow = callArgs.rowCount
        /\ result.x = callArgs.x /\ result.y = callArgs.y
        /\ result.width = callArgs.totalWidth
        /\ result.height = callArgs.totalHeight
        /\ result.partialRow = Null
        /\ result.metadata.coordinateSystem = "fragment"
        /\ Len(result.metadata.columnBoundaries) = Len(callArgs.columnWidths)
        /\ \A i \in 1..Len(callArgs.columnWidths) :
               /\ result.metadata.columnBoundaries[i].index = i - 1
               /\ result.metadata.columnBoundaries[i].width = callArgs.columnWidths[i]

\* an indented table taller than any page, placed where it was asked to be
C23_Witness ==
    /\ called("createAnchoredTableFragment")
    /\ IndentOfCall = 50
    /\ callArgs.totalHeight = 500 /\ result.height = 500
    /\ callArgs.rowCount = 2
    /\ Len(result.metadata.columnBoundaries) = 2
    /\ result.x = callArgs.x

\* min(columnWidth, totalWidth || columnWidth) of the call
BaseWidthOfCall ==
    IF callArgs.totalWidth # 0 /\ callArgs.totalWidth < callArgs.columnWidth
    THEN callArgs.totalWidth ELSE callArgs.columnWidth

\* C29: a fragment is placed at x = columnX + indent with
\* width = max(0, min(columnWidth, totalWidth || columnWidth) - indent), indent
\* being attrs.tableIndent.width if it is a finite number and 0 otherwise; the
\* width is never negative, and a negative indent moves the left edge out of
\* the column and widens the fragment.
C29_FragmentPlacement ==
    called("placeFragment") =>
        /\ result.x = callArgs.baseX + IndentOfCall
        /\ result.width = IF BaseWidthOfCall - IndentOfCall >= 0
                          THEN BaseWidthOfCall - IndentOfCall ELSE 0
        /\ result.width >= 0
        /\ IndentOfCall < 0 => (result.x < callArgs.baseX /\ result.width > BaseWidthOfCall)

\* an indent larger than the table: the width is clamped to 0
C29_Witness ==
    /\ called("placeFragment")
    /\ IndentOfCall = 450
    /\ callArgs.totalWidth = 300
    /\ result.width = 0
    /\ result.x = callArgs.baseX + 450

\* the rows the finder's result includes whole
WholeRowsHeight ==
    sumRowHeights(callArgs.rows, callArgs.startRow,
                  IF result.partialRow # Null THEN result.endRow - 1 ELSE result.endRow)

FinderResultInRange ==
    /\ callArgs.startRow <= result.endRow /\ result.endRow <= Len(callArgs.rows)
    /\ result.partialRow # Null => result.partialRow[1].rowIndex = result.endRow - 1
    /\ FirstNonFitting(callArgs.rows, callArgs.startRow, callArgs.availableHeight) = -1
         => (result.endRow = Len(callArgs.rows) /\ result.partialRow = Null)

FirstNonFittingOfCall ==
    FirstNonFitting(callArgs.rows, callArgs.startRow, callArgs.availableHeight)

RemainingOfCall ==
    callArgs.availableHeight
    - sumRowHeights(callArgs.rows, callArgs.startRow, FirstNonFittingOfCall)

\* the default rule applies: the first non-fitting row is splittable and not
\* over-tall
DefaultRuleApplies ==
    /\ FirstNonFittingOfCall # -1
    /\ ~callArgs.rows[FirstNonFittingOfCall + 1].cantSplit
    /\ ~(callArgs.fullPageHeight # 0
         /\ callArgs.rows[FirstNonFittingOfCall + 1].height > callArgs.fullPageHeight)

PlanOfFirstNonFitting ==
    computePartialRow(FirstNonFittingOfCall, callArgs.rows[FirstNonFittingOfCall + 1].cells,
                      RemainingOfCall, Null)

\* C25: under the default rule findSplitPoint returns a mid-row split of the
\* first non-fitting row exactly when the remaining height is at least
\* MIN_PARTIAL_ROW_HEIGHT and the plan advances a line in some cell, and
\* {endRow: lastFitRow, partialRow: null} otherwise; a partialRow returned by
\* this rule advances in some cell.
C25_DefaultSplitRule ==
    (called("findSplitPoint") /\ DefaultRuleApplies) =>
        /\ IF RemainingOfCall >= MIN_PARTIAL_ROW_HEIGHT /\ AdvancesSomeLine(PlanOfFirstNonFitting)
           THEN result = [endRow |-> FirstNonFittingOfCall + 1,
                          partialRow |-> <<PlanOfFirstNonFitting>>]
           ELSE result = [endRow |-> FirstNonFittingOfCall, partialRow |-> Null]
        /\ result.partialRow # Null =>
               \E i \in 1..Len(result.partialRow[1].toLineByCell) :
                   result.partialRow[1].toLineByCell[i] > result.partialRow[1].fromLineByCell[i]

\* a line of the row would fit in the 10px that remain, yet no split is returned
C25_Witness ==
    /\ called("findSplitPoint")
    /\ DefaultRuleApplies
    /\ RemainingOfCall = 10
    /\ AdvancesSomeLine(PlanOfFirstNonFitting)
    /\ result = [endRow |-> FirstNonFittingOfCall, partialRow |-> Null]
    /\ FirstNonFittingOfCall > callArgs.startRow

(***************************************************************************)
(* Further properties of computePartialRow (SpecPlanner)                   *)
(***************************************************************************)
\* the lines of cell i from its start line on fit in availableHeight less the
\* cell's own padding (in no space at all when the padding exceeds it)
RemainingLinesFit(i) ==
    SliceLinesHeight(LinesOf(i), planned.fromLineByCell[i], Len(LinesOf(i)))
        <= Max(0, cprArgs.availableHeight
                  - PaddingOrDefault(plannedCells[i].padTop, 2)
                  - PaddingOrDefault(plannedCells[i].padBottom, 2))

\* C26: when the remaining lines of every cell fit, every cell is cut at its
\* last line and isLastPart is TRUE, whatever the numbers of lines the cells
\* advance by.
C26_AllCompleteKeepsFirstPass ==
    (cprResult # Null /\ \A i \in CellIndices : RemainingLinesFit(i)) =>
        /\ \A i \in CellIndices : planned.toLineByCell[i] = Len(LinesOf(i))
        /\ planned.isLastPart

\* two cells that both complete, one by two lines and the other by one
C26_Witness ==
    /\ cprResult # Null
    /\ Len(plannedCells) = 2
    /\ \A i \in CellIndices : RemainingLinesFit(i)
    /\ Advance(1) = 2 /\ Advance(2) = 1
    /\ planned.isLastPart

(***************************************************************************)
(* Further properties of the split loop (Spec)                             *)
(***************************************************************************)
\* fragments k and k + 1 both carry a partialRow of the same row
SlicesOfSameRow(k) ==
    /\ k + 1 <= Len(fragments)
    /\ fragments[k].partialRow # Null
    /\ fragments[k + 1].partialRow # Null
    /\ fragments[k].partialRow[1].rowIndex = fragments[k + 1].partialRow[1].rowIndex

pushedFragment == fragments'[Len(fragments')]

\* C28: an iteration of normal row processing that starts on a page with no
\* fragments emits one fragment and stays on its page; when the finder reports
\* that nothing fits, that fragment spans [currentRow, currentRow + 1) and
\* carries a partialRow of the current row, cantSplit or not.
C28_EmptyPageAlwaysEmits ==
    [][ (inNormalIteration /\ pageFragments = 0) =>
            /\ Len(fragments') = Len(fragments) + 1
            /\ pageNo' = pageNo
            /\ pageFragments' = 1
            /\ NothingFits(splitPoint) =>
                   /\ pushedFragment.fromRow = currentRow
                   /\ pushedFragment.toRow = currentRow + 1
                   /\ pushedFragment.partialRow # Null
                   /\ pushedFragment.partialRow[1].rowIndex = currentRow
      ]_vars

\* a cantSplit row has just been force-split on a page that was empty
C28_Witness ==
    /\ lastStep = <<"forced">>
    /\ pageFragments = 1
    /\ rows[currentRow + 1].cantSplit
    /\ fragments[Len(fragments)].partialRow # Null
    /\ fragments[Len(fragments)].toRow = currentRow + 1

\* the length of the longest prefix of block.rows made of repeatHeader rows
LongestHeaderPrefix ==
    CHOOSE n \in 0..Len(rows) :
        /\ \A i \in 1..n : rows[i].repeatHeader
        /\ n < Len(rows) => ~rows[n + 1].repeatHeader

RECURSIVE PrefixHeight(_)
\* the measured heights of the first n rows, added up
PrefixHeight(n) == IF n = 0 THEN 0 ELSE PrefixHeight(n - 1) + rows[n].height

\* the height of a fragment less the rows and the slice it shows
HeightBeyondBody(f) ==
    IF f.partialRow = Null THEN f.height - sumRowHeights(rows, f.fromRow, f.toRow)
    ELSE f.height - sumRowHeights(rows, f.fromRow, f.toRow - 1) - f.partialRow[1].partialHeight

\* C30: the header count is the length of the longest prefix of block.rows in
\* which every row has repeatHeader, so a repeatHeader row after a non-header
\* row is not counted; the header height is the sum of the measured heights of
\* that prefix, and it is what a fragment that repeats the headers adds to the
\* height of its body.
C30_HeaderPrefix ==
    /\ headerCount = LongestHeaderPrefix
    /\ headerHeight = PrefixHeight(LongestHeaderPrefix)
    /\ \A k \in FragmentIndices :
           fragments[k].path \in {"normal", "forced", "continuation"} =>
               /\ fragments[k].repeatHeaderCount \in {0, LongestHeaderPrefix}
               /\ HeightBeyondBody(fragments[k]) =
                      IF fragments[k].repeatHeaderCount > 0
                      THEN PrefixHeight(LongestHeaderPrefix) ELSE 0

\* a table whose second row has repeatHeader and whose first has not, laid out
\* over two fragments neither of which repeats a header
C30_Witness ==
    /\ pc = "done"
    /\ Len(rows) = 2
    /\ ~rows[1].repeatHeader /\ rows[2].repeatHeader
    /\ headerCount = 0
    /\ Len(fragments) >= 2
    /\ \A k \in FragmentIndices : fragments[k].repeatHeaderCount = 0

(***************************************************************************)
(* Page bounds, header repetition and the loop state (Spec)                *)
(***************************************************************************)
\* a fragment emitted by the main loop
FromMainLoop(f) == f.path \in {"normal", "forced", "continuation"}

\* C31: a fragment of the main loop that starts at or above the bottom of the
\* page content also ends at or above it: its height (whole rows, slice of a
\* row and repeated headers) is at most contentBottom less its y.
C31_NoFragmentOverflows ==
    \A k \in FragmentIndices :
        (FromMainLoop(fragments[k]) /\ fragments[k].y <= contentBottom) =>
            fragments[k].y + fragments[k].height <= contentBottom

(***************************************************************************)
(* The height of a slice (SpecPlanner)                                     *)
(***************************************************************************)
\* C32: when computePartialRow advances at least one line in some cell, the
\* partialHeight it returns is at most availableHeight: the second pass gives
\* no cell a line that the first pass found not to fit.
C32_SliceFitsAvailableHeight ==
    (cprResult # Null /\ AdvancesSomeLine(planned)) =>
        planned.partialHeight <= cprArgs.availableHeight

(***************************************************************************)
(* Header repetition per page (Spec)                                       *)
(***************************************************************************)
\* page numbers below MaxPages - 1 name one page each
NamesOnePage(n) == n < MaxPages - 1

\* the fragments of the table on page n that repeat the header rows
HeaderFragmentsOn(n) ==
    { k \in FragmentIndices : fragments[k].page = n /\ fragments[k].repeatHeaderCount > 0 }

\* C33: between two calls of advanceColumn at most one fragment of the table
\* has repeatHeaderCount > 0, also when a split row is emitted as several
\* slices on one page.
C33_HeadersOncePerPage ==
    \A n \in 0..MaxPages : NamesOnePage(n) => Cardinality(HeaderFragmentsOn(n)) <= 1

(***************************************************************************)
(* What a fragment of the main loop shows (Spec)                           *)
(***************************************************************************)
\* the fragment shows at least one row from its first to its last line
ShowsWholeBodyRow(f) ==
    IF f.partialRow = Null THEN f.toRow > f.fromRow ELSE f.toRow - 1 > f.fromRow

\* no cell of row r (0-based) has a line
RowWithoutLines(r) ==
    \A i \in 1..Len(rows[r + 1].cells) : getCellTotalLines(rows[r + 1].cells[i]) = 0

\* C34: every fragment of the main loop shows a whole body row or a slice
\* that advances some cell by a line, unless the row it slices has no line in
\* any cell: no fragment shows padding alone.
C34_NoPaddingOnlyFragment ==
    \A k \in FragmentIndices :
        FromMainLoop(fragments[k]) =>
            \/ ShowsWholeBodyRow(fragments[k])
            \/ /\ fragments[k].partialRow # Null
               /\ \/ AdvancesSomeLine(fragments[k].partialRow[1])
                  \/ RowWithoutLines(fragments[k].partialRow[1].rowIndex)

(***************************************************************************)
(* Conditional termination (FairSpec)                                      *)
(***************************************************************************)
\* padding plus tallest line of a cell
CellNeed(cell) == PaddingTotal(cell) + MaxOver(getCellLines(cell))

\* a fresh page offers headerHeight plus, for every cell of every row, the
\* cell's padding and its tallest line
FreshPageRoomy ==
    \A r \in 1..Len(rows) : \A i \in 1..Len(rows[r].cells) :
        contentBottom - marginTop >= headerHeight + CellNeed(rows[r].cells[i])

\* the step recorded in ls is a loop iteration that called advanceColumn
LoopAdvance(ls) ==
    \/ ls = <<"advanceBeforeRow">>
    \/ Len(ls) = 3 /\ ls[1] = "continuation" /\ ls[2] = "retry"

\* C35: when every fresh page offers at least headerHeight plus each cell's
\* padding and tallest line, layoutTableBlock terminates, and no two loop
\* iterations in a row call advanceColumn.
C35_ConditionalTermination ==
    /\ FreshPageRoomy => <>(pc = "done")
    /\ [][ (FreshPageRoomy /\ LoopAdvance(lastStep)) => ~LoopAdvance(lastStep') ]_vars

\* a table with a repeated header on roomy pages, laid out over three pages
\* or more, the last reached by a retried continuation
C35_Witness ==
    /\ pc = "done"
    /\ FreshPageRoomy
    /\ headerCount > 0
    /\ pageNo >= 2
    /\ \E k \in FragmentIndices :
           fragments[k].path = "continuation" /\ fragments[k].repeatHeaderCount > 0

(***************************************************************************)
(* The loop state (Spec)                                                   *)
(***************************************************************************)
\* C36: at the start of every iteration a pending partial row is a slice of
\* the current row, which is a row of the table; currentRow never decreases;
\* and isTableContinuation is TRUE exactly when a fragment has been emitted or
\* a continuation step taken for this table.
C36_LoopState ==
    /\ [](inLoop =>
            /\ pendingPartialRow # Null =>
                   /\ currentRow = pendingPartialRow[1].rowIndex
                   /\ currentRow < Len(rows)
            /\ isTableContinuation <=>
                   (fragments # <<>> \/ lastStep[1] = "continuation"))
    /\ [][currentRow' >= currentRow]_vars

\* the start of an iteration with a slice of the second row pending after a
\* continuation step
C36_Witness ==
    /\ inIteration
    /\ pendingPartialRow # Null
    /\ currentRow = 1
    /\ lastStep[1] = "continuation"
    /\ isTableContinuation

====
